---------------------------- MODULE Spec2Model ----------------------------
(***************************************************************************)
(* A model of src/parser.ts, the IGC flight-log parser.                    *)
(*                                                                         *)
(* Representation.                                                         *)
(*   - A line of text is a sequence of one-character strings, so that the  *)
(*     regular expressions and the slices of the source are computed       *)
(*     position by position.                                               *)
(*   - A Date is its time value in whole SECONDS since the Unix epoch (the *)
(*     source holds milliseconds; every instant the parser builds is a     *)
(*     whole second, and 32-bit integers hold seconds, not milliseconds).  *)
(*   - An optional value (T | undefined) is <<>> when absent and <<v>>     *)
(*     when present.                                                       *)
(*   - Latitude and longitude are held in thousandths of a minute of arc   *)
(*     (60000 per degree), the unit in which the source's floating-point   *)
(*     expression dd + mm.mmm / 60 is exact.                               *)
(*   - Altitudes and offsets are integers (exactly representable numbers). *)
(***************************************************************************)
EXTENDS Integers, Sequences, FiniteSets, TLC

VARIABLES
    call,          \* the exported function under way
    pc,            \* position inside it: "start", "scan", "convert", "returned", "thrown"
    args,          \* the arguments of the call
    ret,           \* what the call returned or threw
    lines,         \* igcParser: the split input
    idx,           \* igcParser: index of the line the for-loop is at
    metadata,      \* igcParser: the IGCHeader under construction
    trackPoints,   \* igcParser: the fixes accepted so far
    lastActivity,  \* igcParser: running activity marker
    lastPhase,     \* igcParser: running phase marker
    now,           \* environment: the wall clock read by new Date()
    tz,            \* environment: the local time zone of the runtime
    origin         \* history: for each accepted fix, its line index and reference date

vars == <<call, pc, args, ret, lines, idx, metadata, trackPoints,
          lastActivity, lastPhase, now, tz, origin>>

-----------------------------------------------------------------------------
(* Optional values *)

None == <<>>

Some(v) == <<v>>

IsSome(o) == o # <<>>

Get(o) == o[1]

(* a ?? b *)
Coalesce(o, d) == IF IsSome(o) THEN Get(o) ELSE d

-----------------------------------------------------------------------------
(* Characters and strings *)

Digits == {"0", "1", "2", "3", "4", "5", "6", "7", "8", "9"}

DigitValue(c) ==
    CASE c = "0" -> 0 [] c = "1" -> 1 [] c = "2" -> 2 [] c = "3" -> 3
      [] c = "4" -> 4 [] c = "5" -> 5 [] c = "6" -> 6 [] c = "7" -> 7
      [] c = "8" -> 8 [] c = "9" -> 9

(* line[i], undefined (here "") past the end *)
CharAt(s, i) == IF i \in 1..Len(s) THEN s[i] ELSE ""

(* line.slice(a - 1, b) *)
Slice(s, a, b) ==
    LET hi == IF b < Len(s) THEN b ELSE Len(s)
    IN  IF a > hi THEN <<>> ELSE SubSeq(s, a, hi)

AllDigits(s) == \A i \in 1..Len(s) : s[i] \in Digits

(* line.includes(pat) *)
Includes(s, pat) ==
    \E i \in 1..(Len(s) - Len(pat) + 1) : SubSeq(s, i, i + Len(pat) - 1) = pat

RECURSIVE DigitsValue(_)
DigitsValue(s) ==
    IF s = <<>> THEN 0
    ELSE 10 * DigitsValue(SubSeq(s, 1, Len(s) - 1)) + DigitValue(s[Len(s)])

-----------------------------------------------------------------------------
(* Dates: the ECMAScript time-value arithmetic used by Date *)

Hour == 60 * 60

Day == 24 * Hour

(* Days from the epoch to the first day of month `mn` (0-based) of year y *)
DayFromYearMonth(y, mn) ==
    LET m   == mn + 1
        yy  == IF m <= 2 THEN y - 1 ELSE y
        era == yy \div 400
        yoe == yy - era * 400
        mp  == IF m > 2 THEN m - 3 ELSE m + 9
        doy == (153 * mp + 2) \div 5
        doe == yoe * 365 + (yoe \div 4) - (yoe \div 100) + doy
    IN  era * 146097 + doe - 719468

(* MakeDay(year, month, date): month and date may lie outside their ranges *)
MakeDay(year, month, date) ==
    DayFromYearMonth(year + (month \div 12), month % 12) + date - 1

(* Date.UTC(year, monthIndex, day) *)
DateUTC(year, month, date) == MakeDay(year, month, date) * Day

(* The civil date <<year, month (1-based), day>> of a day number *)
CivilFromDays(z0) ==
    LET z   == z0 + 719468
        era == z \div 146097
        doe == z - era * 146097
        yoe == (doe - (doe \div 1460) + (doe \div 36524) - (doe \div 146096)) \div 365
        doy == doe - (365 * yoe + (yoe \div 4) - (yoe \div 100))
        mp  == (5 * doy + 2) \div 153
        d   == doy - ((153 * mp + 2) \div 5) + 1
        m   == IF mp < 10 THEN mp + 3 ELSE mp - 9
        y   == yoe + era * 400 + (IF m <= 2 THEN 1 ELSE 0)
    IN  <<y, m, d>>

(* date.toISOString(): the fields of YYYY-MM-DDTHH:mm:ss.000Z *)
toISOString(t) ==
    LET c == CivilFromDays(t \div Day)
        s == t % Day
    IN  [year |-> c[1], month |-> c[2], day |-> c[3],
         hours |-> s \div Hour, minutes |-> (s % Hour) \div 60, seconds |-> s % 60]

(* new Date(iso.slice(0, 10)): a date-only string is UTC midnight of that day *)
DateFromISODate(iso) == DateUTC(iso.year, iso.month - 1, iso.day)

(* timestamp.setUTCHours(hours, minutes, seconds) *)
setUTCHours(t, hours, minutes, seconds) ==
    (t \div Day) * Day + hours * Hour + minutes * 60 + seconds

(* Local time zones: an offset before and after one transition instant *)
LocalTZA(zone, t) == IF t < zone.transition THEN zone.before ELSE zone.after

(* UTC(t_local): the offset before the transition decides a skipped or repeated time *)
UTCFromLocal(zone, tl) ==
    IF tl - zone.before < zone.transition THEN tl - zone.before
    ELSE IF tl - zone.after >= zone.transition THEN tl - zone.after
    ELSE tl - zone.before

(* timestamp.setDate(timestamp.getDate() + 1), in the local time zone *)
setDateNextDay(zone, t) ==
    LET tl == t + LocalTZA(zone, t)
        c  == CivilFromDays(tl \div Day)
        nl == MakeDay(c[1], c[2] - 1, c[3] + 1) * Day + (tl % Day)
    IN  UTCFromLocal(zone, nl)

-----------------------------------------------------------------------------
(* Numbers that may be NaN: [nan |-> TRUE] is NaN *)

NaN == [nan |-> TRUE, val |-> 0]

Num(n) == [nan |-> FALSE, val |-> n]

WhiteSpace == {" ", "\t"}

RECURSIVE TrimStart(_)
TrimStart(s) ==
    IF s # <<>> /\ s[1] \in WhiteSpace THEN TrimStart(Tail(s)) ELSE s

RECURSIVE DigitPrefix(_)
DigitPrefix(s) ==
    IF s # <<>> /\ s[1] \in Digits THEN <<s[1]>> \o DigitPrefix(Tail(s)) ELSE <<>>

(* parseInt(string): leading white space, an optional sign, then the decimal  *)
(* digits up to the first other character; NaN when there is no digit         *)
parseInt(str) ==
    LET s    == TrimStart(str)
        neg  == CharAt(s, 1) = "-"
        body == IF CharAt(s, 1) \in {"-", "+"} THEN Tail(s) ELSE s
        ds   == DigitPrefix(body)
    IN  IF ds = <<>> THEN NaN
        ELSE Num(IF neg THEN 0 - DigitsValue(ds) ELSE DigitsValue(ds))

-----------------------------------------------------------------------------
(* parseMetadata *)

HeaderFields ==
    {"date", "fixAccuracy", "pilot", "copilot", "gliderModel", "gliderID",
     "gpsDatum", "firmwareVersion", "hardwareVersion", "flightRecorderType",
     "gpsType", "pressureSensorType", "competitionID", "competitionClass",
     "security"}

(* const metadata: IGCHeader = {} *)
EmptyHeader == [f \in HeaderFields |-> None]

(* line.match(/(\d\d)(\d\d)(\d{2,3})/): the leftmost run of six digits, the  *)
(* third group taking a seventh digit when there is one                      *)
DateRegexMatch(line) ==
    LET starts == {i \in 1..Len(line) : i + 5 <= Len(line)
                                        /\ AllDigits(SubSeq(line, i, i + 5))}
    IN  IF starts = {} THEN None
        ELSE LET p  == CHOOSE i \in starts : \A j \in starts : i <= j
                 g3 == IF CharAt(line, p + 6) \in Digits
                       THEN SubSeq(line, p + 4, p + 6)
                       ELSE SubSeq(line, p + 4, p + 5)
             IN  Some(<<SubSeq(line, p, p + 1), SubSeq(line, p + 2, p + 3), g3>>)

\* line.match of the fix-accuracy expression (a digit run, zero or more digits,
\* unanchored): it always matches, at index 0, the possibly empty digit run
\* that starts the line. The expression has no capture group, so
\* recordData[1] is undefined.
FixAccuracyRegexMatch(line) == Some(<<DigitPrefix(line)>>)

\* line.match(defaultTextRegex)[1]: the first alternative is a lazy prefix up
\* to a colon followed by capture group 1, the rest of the line; the lazy
\* prefix stops at the first colon. Without a colon the second alternative
\* matches and group 1 is undefined.
DefaultTextGroup1(line) ==
    LET colons == {i \in 1..Len(line) : line[i] = ":"}
    IN  IF colons = {} THEN None
        ELSE LET p == CHOOSE i \in colons : \A j \in colons : i <= j
             IN  Some(SubSeq(line, p + 1, Len(line)))

(* the switch (key) table of the free-text records *)
TextKeyField(key) ==
    CASE key = <<"H", "F", "P", "L", "T">> -> Some("pilot")
      [] key = <<"H", "F", "C", "M", "2">> -> Some("copilot")
      [] key = <<"H", "F", "G", "T", "Y">> -> Some("gliderModel")
      [] key = <<"H", "F", "G", "I", "D">> -> Some("gliderID")
      [] key = <<"H", "F", "D", "T", "M">> -> Some("gpsDatum")
      [] key = <<"H", "F", "R", "F", "W">> -> Some("firmwareVersion")
      [] key = <<"H", "F", "R", "H", "W">> -> Some("hardwareVersion")
      [] key = <<"H", "F", "F", "T", "Y">> -> Some("flightRecorderType")
      [] key = <<"H", "F", "G", "P", "S">> -> Some("gpsType")
      [] key = <<"H", "F", "P", "R", "S">> -> Some("pressureSensorType")
      [] key = <<"H", "F", "C", "I", "D">> -> Some("competitionID")
      [] key = <<"H", "F", "C", "C", "L">> -> Some("competitionClass")
      [] OTHER -> None

(* the body of the for loop of parseMetadata, for one line *)
parseMetadataLine(md, line) ==
    IF CharAt(line, 1) \notin {"H", "A"} THEN md
    ELSE LET key == Slice(line, 1, 5) IN
        IF key = <<"H", "F", "D", "T", "E">> THEN
            LET recordData == DateRegexMatch(line) IN
            IF ~IsSome(recordData) THEN md
            ELSE LET g       == Get(recordData)
                     century == IF Len(g[3]) = 2 THEN <<"2", "0">> ELSE <<"1", "9">>
                 IN  [md EXCEPT !["date"] =
                         Some(DateUTC(parseInt(century \o g[3]).val,
                                      parseInt(g[2]).val - 1,
                                      parseInt(g[1]).val))]
        ELSE IF key = <<"H", "F", "F", "X", "A">> THEN
            LET recordData == FixAccuracyRegexMatch(line) IN
            IF ~IsSome(recordData) THEN md
            ELSE [md EXCEPT !["fixAccuracy"] = Some(NaN)]   \* parseInt(undefined)
        ELSE
            LET recordData == DefaultTextGroup1(line)
                field      == TextKeyField(key)
            IN  IF ~IsSome(recordData) \/ Get(recordData) = <<>> \/ ~IsSome(field)
                THEN md
                ELSE IF Get(field) = "gpsDatum"
                THEN [md EXCEPT !["gpsDatum"] = Some(parseInt(Get(recordData)))]
                ELSE [md EXCEPT ![Get(field)] = recordData]

RECURSIVE parseMetadataFrom(_, _)
parseMetadataFrom(md, igcLines) ==
    IF igcLines = <<>> THEN md
    ELSE parseMetadataFrom(parseMetadataLine(md, Head(igcLines)), Tail(igcLines))

parseMetadata(igcLines) == parseMetadataFrom(EmptyHeader, igcLines)

-----------------------------------------------------------------------------
(* parseLatitude, parseLongitude: thousandths of a minute of arc, signed *)

parseLatitude(dd, mm, mmm, ns) ==
    LET degrees == parseInt(dd).val * 60000 + parseInt(mm).val * 1000 + parseInt(mmm).val
    IN  IF ns = "S" THEN 0 - degrees ELSE degrees

parseLongitude(ddd, mm, mmm, ew) ==
    LET degrees == parseInt(ddd).val * 60000 + parseInt(mm).val * 1000 + parseInt(mmm).val
    IN  IF ew = "W" THEN 0 - degrees ELSE degrees

-----------------------------------------------------------------------------
(* parseFix *)

(* (-\d{4}|\d{5}) at positions a..a+4 *)
AltitudeGroup(line, a) ==
    /\ AllDigits(SubSeq(line, a + 1, a + 4))
    /\ line[a] \in Digits \cup {"-"}

(* line.match(bRegex): the 14 captured groups, or no match. The expression  *)
(* is anchored at the start only, and every group has a fixed width.        *)
bRegex(line) ==
    IF /\ Len(line) >= 35
       /\ line[1] = "B"
       /\ AllDigits(SubSeq(line, 2, 14))
       /\ line[15] \in {"N", "S"}
       /\ AllDigits(SubSeq(line, 16, 23))
       /\ line[24] \in {"E", "W"}
       /\ line[25] \in {"A", "V"}
       /\ AltitudeGroup(line, 26)
       /\ AltitudeGroup(line, 31)
    THEN Some(<<SubSeq(line, 2, 3), SubSeq(line, 4, 5), SubSeq(line, 6, 7),
                SubSeq(line, 8, 9), SubSeq(line, 10, 11), SubSeq(line, 12, 14),
                <<line[15]>>,
                SubSeq(line, 16, 18), SubSeq(line, 19, 20), SubSeq(line, 21, 23),
                <<line[24]>>, <<line[25]>>,
                SubSeq(line, 26, 30), SubSeq(line, 31, 35)>>)
    ELSE None

(* mutant: the comparison the wrong way round *)
checkForDayRollover_Flipped(prevTime, currTime) == currTime > prevTime - Hour

checkForDayRollover(prevTime, currTime) == currTime < prevTime - Hour

(* mutant: the validity flag is not looked at *)
valid_Always(matches) == TRUE

(* const valid = matches[12] === "A" *)
valid(matches) == matches[12] = <<"A">>

(* mutant: the literal "00000" is not singled out *)
AltitudeField_NoSentinel(group) == Some(parseInt(group).val)

(* matches[k] === "00000" ? undefined : parseInt(matches[k], 10) *)
AltitudeField(group) ==
    IF group = <<"0", "0", "0", "0", "0">> THEN None ELSE Some(parseInt(group).val)

(* p: [line, activity, phase, date, prevTimestamp] *)
parseFix(p) ==
    LET matches == bRegex(p.line) IN
    IF ~IsSome(matches) THEN [tag |-> "throw", error |-> "Invalid B record"]
    ELSE
        LET m       == Get(matches)
            hours   == parseInt(m[1]).val
            minutes == parseInt(m[2]).val
            seconds == parseInt(m[3]).val
        IN
        IF ~valid(m) THEN [tag |-> "null"]
        ELSE
            LET t0        == DateFromISODate(toISOString(p.date))
                t         == setUTCHours(t0, hours, minutes, seconds)
                isNextDay == IF IsSome(p.prevTimestamp)
                             THEN checkForDayRollover(Get(p.prevTimestamp), t)
                             ELSE FALSE
                timestamp == IF isNextDay THEN setDateNextDay(tz, t) ELSE t
            IN  [tag |-> "fix",
                 fix |-> [timestamp        |-> timestamp,
                          lat              |-> parseLatitude(m[4], m[5], m[6], m[7][1]),
                          long             |-> parseLongitude(m[8], m[9], m[10], m[11][1]),
                          activity         |-> p.activity,
                          phase            |-> p.phase,
                          pressureAltitude |-> AltitudeField(m[13]),
                          gpsAltitude      |-> AltitudeField(m[14])]]

-----------------------------------------------------------------------------
(* convertToGeoJSON *)

(* mutant: the two altitudes in the wrong order of preference *)
preferredAltitude_GpsFirst(fix) ==
    IF IsSome(fix.gpsAltitude) THEN Get(fix.gpsAltitude)
    ELSE Coalesce(fix.pressureAltitude, 0)

(* fix.pressureAltitude ?? fix.gpsAltitude ?? 0 *)
preferredAltitude(fix) ==
    IF IsSome(fix.pressureAltitude) THEN Get(fix.pressureAltitude)
    ELSE Coalesce(fix.gpsAltitude, 0)

(* mutant: the empty-input check is missing *)
isEmpty_Never(points) == FALSE

(* trackPoints.length === 0 *)
isEmpty(points) == Len(points) = 0

(* mutant: the index of the previous point is off by one *)
prevAltitude_Current(coordinates, i, altitude) == coordinates[i][3]

(* const prevAltitude = i > 0 ? coordinates[i - 1][2] : altitude *)
prevAltitude(coordinates, i, altitude) ==
    IF i > 1 THEN coordinates[i - 1][3] ELSE altitude

convertToGeoJSON(points, altitudeOffset) ==
    IF isEmpty(points) THEN [tag |-> "throw", error |-> "No trackPoints provided"]
    ELSE
        LET n           == Len(points)
            altitude(i) == preferredAltitude(points[i]) + altitudeOffset
            coordinates == [i \in 1..n |-> <<points[i].long, points[i].lat, altitude(i)>>]
        IN  [tag |-> "feature",
             feature |->
                [type     |-> "Feature",
                 geometry |-> [type |-> "LineString", coordinates |-> coordinates],
                 properties |->
                    [timestamps     |-> [i \in 1..n |-> toISOString(points[i].timestamp)],
                     phases         |-> [i \in 1..n |-> points[i].phase],
                     activities     |-> [i \in 1..n |-> points[i].activity],
                     verticalSpeeds |-> [i \in 1..n |-> altitude(i) - prevAltitude(coordinates, i, altitude(i))]]]]

-----------------------------------------------------------------------------
(* Bounds of the model *)

MaxLines == 3

MaxFixes == 3

MaxClockDays == 1

MaxHeaderLines == 2

(* Program constants *)

HeaderWindow == 30

DefaultAltitudeOffset == 0

-----------------------------------------------------------------------------
(* The environment: wall clock and local time zone *)

RefDay == DateUTC(2024, 2, 10)          \* 2024-03-10T00:00:00Z

Now0 == RefDay - 12 * Hour            \* 2024-03-09T12:00:00Z

UTCZone == [transition |-> 0, before |-> 0, after |-> 0]

(* America/New_York around its 2024 spring transition, 2024-03-10T07:00:00Z *)
NewYorkZone == [transition |-> RefDay + 7 * Hour,
                before |-> 0 - 5 * Hour, after |-> 0 - 4 * Hour]

Zones == {UTCZone, NewYorkZone}

-----------------------------------------------------------------------------
(* Input lines *)

Position == <<"4", "6", "5", "1", "3", "8", "8", "N",
              "0", "0", "8", "2", "0", "5", "9", "3", "E">>

PositionSW == <<"2", "3", "4", "5", "6", "7", "8", "S",
                "1", "2", "3", "4", "5", "6", "7", "8", "W">>

Time(h1, h2, m1, m2, s1, s2) == <<h1, h2, m1, m2, s1, s2>>

T000100 == Time("0", "0", "0", "1", "0", "0")

T225859 == Time("2", "2", "5", "8", "5", "9")

T225900 == Time("2", "2", "5", "9", "0", "0")

T235900 == Time("2", "3", "5", "9", "0", "0")

T250000 == Time("2", "5", "0", "0", "0", "0")

Alt01345 == <<"0", "1", "3", "4", "5">>

Alt01414 == <<"0", "1", "4", "1", "4">>

Alt00000 == <<"0", "0", "0", "0", "0">>

AltMinus12 == <<"-", "0", "0", "1", "2">>

BRecord(time, position, flag, palt, galt) ==
    <<"B">> \o time \o position \o <<flag>> \o palt \o galt

DateLine == <<"H", "F", "D", "T", "E", "1", "0", "0", "3", "2", "4">>

ACTIVITY == <<"A", "C", "T", "I", "V", "I", "T", "Y">>

PHASE == <<"P", "H", "A", "S", "E">>

ActivityLine == <<"L">> \o ACTIVITY

PhaseLine == <<"L">> \o PHASE

BothLine == <<"L">> \o PHASE \o ACTIVITY

OtherLine == <<"X">> \o ACTIVITY \o PHASE

SecurityLine == <<"G", "1">>

MalformedFixes ==
    { <<"B", "X">>,
      BRecord(T235900, Position, "X", Alt01345, Alt01414),
      BRecord(T235900, Position, "A", Alt01345, <<"0", "1", "4", "1">>),
      BRecord(T235900, Position, "V", <<"+", "1", "3", "4", "5">>, Alt01414) }

VoidFix == BRecord(T235900, Position, "V", Alt01345, Alt01414)

IgcLines ==
    { DateLine, ActivityLine, PhaseLine, BothLine, OtherLine, SecurityLine,
      BRecord(T235900, Position, "A", Alt01345, Alt01414),
      BRecord(T225900, Position, "A", Alt00000, Alt00000),
      BRecord(T000100, PositionSW, "A", Alt00000, AltMinus12),
      VoidFix,
      <<"B", "X">> }

SeqsUpTo(S, n) == UNION { [1..k -> S] : k \in 0..n }

IgcArgs ==
    { [igcString |-> None] }
      \cup { [igcString |-> Some(ls)] : ls \in SeqsUpTo(IgcLines, MaxLines) \ {<<>>} }

FixLines ==
    { BRecord(t, Position, f, a[1], a[2]) :
        t \in {T000100, T225859, T225900, T235900, T250000},
        f \in {"A", "V"},
        a \in {<<Alt01345, Alt01414>>, <<Alt00000, AltMinus12>>, <<AltMinus12, Alt00000>>} }
      \cup { BRecord(T000100, PositionSW, "A", Alt01345, Alt01414) \o <<"x">> }
      \cup MalformedFixes

FixArgs ==
    { [line |-> l, activity |-> m[1], phase |-> m[2], date |-> d, prevTimestamp |-> p] :
        l \in FixLines,
        m \in {<<None, None>>, <<Some(<<"f", "l", "y">>), Some(<<"o", "n">>)>>},
        d \in {RefDay, RefDay + 12 * Hour},
        p \in {None, Some(RefDay + 23 * Hour + 59 * 60), Some(RefDay + 47 * Hour)} }

GeoFix(k, palt, galt, activity, phase) ==
    [timestamp |-> RefDay + k * 60, lat |-> 2811388 + k, long |-> 500593 - k,
     activity |-> activity, phase |-> phase,
     pressureAltitude |-> palt, gpsAltitude |-> galt]

GeoFixes ==
    { GeoFix(1, Some(1345), Some(1414), Some(<<"f", "l", "y">>), Some(<<"u", "p">>)),
      GeoFix(2, None, Some(1420), Some(<<"f", "l", "y">>), None),
      GeoFix(3, None, None, None, Some(<<"u", "p">>)),
      GeoFix(4, Some(0), Some(5), None, None) }

GeoArgs ==
    { [trackPoints |-> ps, altitudeOffset |-> off] :
        ps \in SeqsUpTo(GeoFixes, MaxFixes),
        off \in {DefaultAltitudeOffset, 100, 0 - 100} }

-----------------------------------------------------------------------------
(* The state machine: one call of an exported function *)

(* Header lines *)

Key(a, b, c, d, e) == <<a, b, c, d, e>>

PilotKey == Key("H", "F", "P", "L", "T")

DatumKey == Key("H", "F", "D", "T", "M")

GliderKey == Key("H", "F", "G", "T", "Y")

AccuracyKey == Key("H", "F", "F", "X", "A")

HeaderLines ==
    { PilotKey \o <<"P", ":", "T", "e", "d">>,          \* one colon
      PilotKey \o <<"a", ":", "b", ":", "c">>,          \* two colons
      PilotKey \o <<"T", "e", "d">>,                    \* no colon
      PilotKey \o <<":">>,                              \* nothing after the colon
      GliderKey \o <<":", "Z", "2">>,
      DatumKey \o <<":", "1", "0", "0">>,
      DatumKey \o <<":", "W", "G", "S">>,
      AccuracyKey \o <<"0", "3", "5">>,
      AccuracyKey \o <<":", "1", "2", "m">>,
      AccuracyKey,                                      \* no digit
      Key("H", "F", "X", "Y", "Z") \o <<":", "q">>,      \* a key the switch does not know
      <<"A", "X", "C", "T">>,
      <<"I", ":", "x">>,                                \* not a header line
      DateLine }

HeaderArgs ==
    { [igcLines |-> ls] : ls \in SeqsUpTo(HeaderLines, MaxHeaderLines) }

NoResult == [tag |-> "none"]

Init ==
    /\ \/ call = "igcParser" /\ args \in IgcArgs
       \/ call = "parseFix" /\ args \in FixArgs
       \/ call = "convertToGeoJSON" /\ args \in GeoArgs
       \/ call = "parseMetadata" /\ args \in HeaderArgs
    /\ pc = "start"
    /\ ret = NoResult
    /\ lines = <<>>
    /\ idx = 0
    /\ metadata = EmptyHeader
    /\ trackPoints = <<>>
    /\ lastActivity = None
    /\ lastPhase = None
    /\ now = Now0
    /\ tz \in Zones
    /\ origin = <<>>

Outcome(r) == IF r.tag = "throw" THEN "thrown" ELSE "returned"

(* parseFix called directly *)
CallParseFix ==
    /\ call = "parseFix" /\ pc = "start"
    /\ ret' = parseFix(args)
    /\ pc' = Outcome(ret')
    /\ UNCHANGED <<call, args, lines, idx, metadata, trackPoints,
                   lastActivity, lastPhase, now, tz, origin>>

(* convertToGeoJSON called directly *)
CallConvertToGeoJSON ==
    /\ call = "convertToGeoJSON" /\ pc = "start"
    /\ ret' = convertToGeoJSON(args.trackPoints, args.altitudeOffset)
    /\ pc' = Outcome(ret')
    /\ UNCHANGED <<call, args, lines, idx, metadata, trackPoints,
                   lastActivity, lastPhase, now, tz, origin>>

(* parseMetadata called directly *)
CallParseMetadata ==
    /\ call = "parseMetadata" /\ pc = "start"
    /\ ret' = [tag |-> "header", metadata |-> parseMetadata(args.igcLines)]
    /\ pc' = "returned"
    /\ UNCHANGED <<call, args, lines, idx, metadata, trackPoints,
                   lastActivity, lastPhase, now, tz, origin>>

(* igcParser up to the for loop: the input check, the split, parseMetadata *)
igcParserStart ==
    /\ call = "igcParser" /\ pc = "start"
    /\ IF ~IsSome(args.igcString)
       THEN /\ pc' = "thrown"
            /\ ret' = [tag |-> "throw",
                       error |-> "Either filepath or igcString must be provided"]
            /\ UNCHANGED <<lines, idx, metadata>>
       ELSE /\ lines' = Get(args.igcString)
            /\ metadata' = parseMetadata(Slice(lines', 1, HeaderWindow))
            /\ idx' = 1
            /\ pc' = "scan"
            /\ ret' = ret
    /\ UNCHANGED <<call, args, trackPoints, lastActivity, lastPhase, now, tz, origin>>

AtLine == call = "igcParser" /\ pc = "scan" /\ idx <= Len(lines)

(* if (line[0] === "H") continue *)
ScanHeader ==
    /\ AtLine /\ CharAt(lines[idx], 1) = "H"
    /\ idx' = idx + 1
    /\ UNCHANGED <<call, pc, args, ret, lines, metadata, trackPoints,
                   lastActivity, lastPhase, now, tz, origin>>

(* mutant: the security record is stored but the loop goes on *)
ScanSecurity_NoBreak ==
    /\ call = "igcParser" /\ pc = "scan" /\ idx <= Len(lines)
    /\ CharAt(lines[idx], 1) = "G"
    /\ metadata' = [metadata EXCEPT !["security"] = Some(lines[idx])]
    /\ idx' = idx + 1
    /\ UNCHANGED <<call, pc, args, ret, lines, trackPoints,
                   lastActivity, lastPhase, now, tz, origin>>

(* if (line[0] === "G") { metadata.security = line; break } *)
ScanSecurity ==
    /\ AtLine /\ CharAt(lines[idx], 1) = "G"
    /\ metadata' = [metadata EXCEPT !["security"] = Some(lines[idx])]
    /\ pc' = "convert"
    /\ UNCHANGED <<call, args, ret, lines, idx, trackPoints,
                   lastActivity, lastPhase, now, tz, origin>>

(* mutant: two independent tests instead of if / else if *)
updateMarkers_Both(line, activity, phase) ==
    <<IF Includes(line, ACTIVITY) THEN Some(line) ELSE activity,
      IF Includes(line, PHASE) THEN Some(line) ELSE phase>>

(* if (line.includes("ACTIVITY")) lastActivity = line;          *)
(* else if (line.includes("PHASE")) lastPhase = line;            *)
(* the new <<lastActivity, lastPhase>>                           *)
updateMarkers(line, activity, phase) ==
    IF Includes(line, ACTIVITY) THEN <<Some(line), phase>>
    ELSE IF Includes(line, PHASE) THEN <<activity, Some(line)>>
    ELSE <<activity, phase>>

(* if (line[0] === "L") { ... } *)
ScanMarker ==
    /\ AtLine /\ CharAt(lines[idx], 1) = "L"
    /\ LET m == updateMarkers(lines[idx], lastActivity, lastPhase)
       IN  lastActivity' = m[1] /\ lastPhase' = m[2]
    /\ idx' = idx + 1
    /\ UNCHANGED <<call, pc, args, ret, lines, metadata, trackPoints, now, tz, origin>>

(* mutant: a fix line that fails the layout is skipped instead of thrown on *)
ScanFix_SkipInvalid ==
    /\ call = "igcParser" /\ pc = "scan" /\ idx <= Len(lines)
    /\ CharAt(lines[idx], 1) = "B"
    /\ LET date == Coalesce(metadata["date"], now)
           fix  == parseFix([line          |-> lines[idx],
                             activity      |-> lastActivity,
                             phase         |-> lastPhase,
                             date          |-> date,
                             prevTimestamp |->
                                 IF trackPoints = <<>> THEN None
                                 ELSE Some(trackPoints[Len(trackPoints)].timestamp)])
       IN  IF fix.tag = "fix"
           THEN /\ trackPoints' = Append(trackPoints, fix.fix)
                /\ origin' = Append(origin, [line |-> idx, date |-> date])
           ELSE UNCHANGED <<trackPoints, origin>>
    /\ idx' = idx + 1
    /\ UNCHANGED <<call, pc, args, ret, lines, metadata, lastActivity, lastPhase,
                   now, tz>>

(* new Date(): the clock does not run backwards and may have passed midnight *)
ClockReadings == {n \in {now, now + Day} : n <= Now0 + MaxClockDays * Day}

(* if (line[0] === "B") { const fix = parseFix(...); if (fix) trackPoints.push(fix) } *)
ScanFix ==
    /\ AtLine /\ CharAt(lines[idx], 1) = "B"
    /\ \E clock \in ClockReadings :
         /\ now' = IF IsSome(metadata["date"]) THEN now ELSE clock
         /\ LET date == Coalesce(metadata["date"], clock)
                fix  == parseFix([line          |-> lines[idx],
                                  activity      |-> lastActivity,
                                  phase         |-> lastPhase,
                                  date          |-> date,
                                  prevTimestamp |->
                                      IF trackPoints = <<>> THEN None
                                      ELSE Some(trackPoints[Len(trackPoints)].timestamp)])
            IN  IF fix.tag = "throw"
                THEN /\ pc' = "thrown" /\ ret' = fix
                     /\ UNCHANGED <<idx, trackPoints, origin>>
                ELSE /\ idx' = idx + 1
                     /\ UNCHANGED <<pc, ret>>
                     /\ IF fix.tag = "fix"
                        THEN /\ trackPoints' = Append(trackPoints, fix.fix)
                             /\ origin' = Append(origin, [line |-> idx, date |-> date])
                        ELSE UNCHANGED <<trackPoints, origin>>
    /\ UNCHANGED <<call, args, lines, metadata, lastActivity, lastPhase, tz>>

(* any other line *)
ScanOther ==
    /\ AtLine /\ CharAt(lines[idx], 1) \notin {"H", "G", "L", "B"}
    /\ idx' = idx + 1
    /\ UNCHANGED <<call, pc, args, ret, lines, metadata, trackPoints,
                   lastActivity, lastPhase, now, tz, origin>>

(* the for loop runs out of lines *)
ScanEnd ==
    /\ call = "igcParser" /\ pc = "scan" /\ idx > Len(lines)
    /\ pc' = "convert"
    /\ UNCHANGED <<call, args, ret, lines, idx, metadata, trackPoints,
                   lastActivity, lastPhase, now, tz, origin>>

(* const geoJSON = convertToGeoJSON(trackPoints); return {...} *)
igcParserReturn ==
    /\ call = "igcParser" /\ pc = "convert"
    /\ LET geoJSON == convertToGeoJSON(trackPoints, DefaultAltitudeOffset)
       IN  IF geoJSON.tag = "throw"
           THEN pc' = "thrown" /\ ret' = geoJSON
           ELSE /\ pc' = "returned"
                /\ ret' = [tag |-> "data", metadata |-> metadata,
                           trackPoints |-> trackPoints, geoJSON |-> geoJSON.feature]
    /\ UNCHANGED <<call, args, lines, idx, metadata, trackPoints,
                   lastActivity, lastPhase, now, tz, origin>>

Next ==
    \/ CallParseFix
    \/ CallConvertToGeoJSON
    \/ CallParseMetadata
    \/ igcParserStart
    \/ ScanHeader
    \/ ScanSecurity
    \/ ScanMarker
    \/ ScanFix
    \/ ScanOther
    \/ ScanEnd
    \/ igcParserReturn

Spec == Init /\ [][Next]_vars

-----------------------------------------------------------------------------
(* Notions the claims are stated in *)

Returned(f) == call = f /\ pc = "returned"

Thrown(f) == call = f /\ pc = "thrown"

(* UTC midnight of the day an instant lies in *)
StartOfUTCDay(t) == t - (t % Day)

(* The time of day a fix line carries, in seconds *)
TimeOfDay(line) ==
    DigitsValue(SubSeq(line, 2, 3)) * Hour
      + DigitsValue(SubSeq(line, 4, 5)) * 60
      + DigitsValue(SubSeq(line, 6, 7))

(* The instant built from a line's time of day on the reference date *)
InstantOnDate(line, date) == StartOfUTCDay(date) + TimeOfDay(line)

-----------------------------------------------------------------------------
-----------------------------------------------------------------------------
(* C2: parseFix on a well-formed record with flag "A" returns t advanced by *)
(* exactly one day when a previous timestamp is given and t is more than    *)
(* one hour earlier than it, and t itself in every other case, t being the  *)
(* instant of the record's time of day on the reference date.               *)
C2_Rollover ==
    (Returned("parseFix") /\ ret.tag = "fix") =>
        LET t == InstantOnDate(args.line, args.date)
        IN  ret.fix.timestamp =
                IF IsSome(args.prevTimestamp) /\ t < Get(args.prevTimestamp) - Hour
                THEN t + Day
                ELSE t

-----------------------------------------------------------------------------
(* The fixed layout of a fix record, column by column: B, six digits of     *)
(* time, latitude DDMMmmm and N or S, longitude DDDMMmmm and E or W, the    *)
(* validity flag A or V, and two altitudes, each five digits or a minus     *)
(* sign and four digits. Text may follow the 35th column.                   *)
FixLayout ==
    <<"B", "d", "d", "d", "d", "d", "d",
      "d", "d", "d", "d", "d", "d", "d", "NS",
      "d", "d", "d", "d", "d", "d", "d", "d", "EW",
      "AV",
      "s", "d", "d", "d", "d",
      "s", "d", "d", "d", "d">>

InClass(c, class) ==
    CASE class = "B"  -> c = "B"
      [] class = "d"  -> c \in Digits
      [] class = "NS" -> c \in {"N", "S"}
      [] class = "EW" -> c \in {"E", "W"}
      [] class = "AV" -> c \in {"A", "V"}
      [] class = "s"  -> c \in Digits \cup {"-"}

WellFormedFix(line) ==
    /\ Len(line) >= Len(FixLayout)
    /\ \A i \in 1..Len(FixLayout) : InClass(line[i], FixLayout[i])

FlagColumn == CHOOSE i \in 1..Len(FixLayout) : FixLayout[i] = "AV"

VoidRecord(line) == WellFormedFix(line) /\ line[FlagColumn] = "V"

(* The lines igcParser's scan gets to: those up to the first security record *)
FirstSecurity ==
    LET G == {j \in 1..Len(lines) : CharAt(lines[j], 1) = "G"}
    IN  IF G = {} THEN Len(lines) + 1 ELSE CHOOSE j \in G : \A i \in G : j <= i

-----------------------------------------------------------------------------
(* C3: a well-formed fix line with validity flag "V" makes parseFix return  *)
(* null, without an error, for every reference date and previous timestamp; *)
(* in igcParser no fix of trackPoints comes from such a line, and the scan  *)
(* goes on with the next line, trackPoints unchanged.                       *)
C3_VoidState ==
    /\ (call = "parseFix" /\ pc # "start" /\ VoidRecord(args.line))
           => (pc = "returned" /\ ret = [tag |-> "null"])
    /\ call = "igcParser"
           => /\ Len(origin) = Len(trackPoints)
              /\ \A k \in 1..Len(origin) : ~VoidRecord(lines[origin[k].line])

C3_VoidStep ==
    (AtLine /\ VoidRecord(lines[idx]))
        => (pc' = "scan" /\ idx' = idx + 1 /\ trackPoints' = trackPoints)

C3_VoidFix == [](C3_VoidState) /\ [][C3_VoidStep]_vars

(* C3 witness: igcParser has passed a void record after an accepted fix and *)
(* is still scanning                                                        *)
C3_Witness ==
    /\ call = "igcParser" /\ pc = "scan" /\ idx > 2
    /\ VoidRecord(lines[idx - 1])
    /\ Len(trackPoints) = 1

-----------------------------------------------------------------------------
(* C4: convertToGeoJSON on an empty fix sequence throws the empty-input     *)
(* error for every altitude offset and never returns a feature; igcParser   *)
(* never returns a result without a fix (an empty LineString).              *)
C4_EmptyTrack ==
    /\ (call = "convertToGeoJSON" /\ pc # "start" /\ args.trackPoints = <<>>)
           => (pc = "thrown" /\ ret = [tag |-> "throw",
                                       error |-> "No trackPoints provided"])
    /\ Returned("convertToGeoJSON")
           => (args.trackPoints # <<>> /\ ret.feature.geometry.coordinates # <<>>)
    /\ Returned("igcParser")
           => (ret.trackPoints # <<>> /\ ret.geoJSON.geometry.coordinates # <<>>)
    /\ (call = "igcParser" /\ pc \in {"returned", "thrown"} /\ trackPoints = <<>>)
           => pc = "thrown"

(* C4 witness: the direct call on no fixes with a non-zero offset has thrown *)
C4_Witness ==
    /\ Thrown("convertToGeoJSON")
    /\ args.trackPoints = <<>>
    /\ args.altitudeOffset # 0
    /\ ret.error = "No trackPoints provided"

-----------------------------------------------------------------------------
(* The preferred altitude of a fix: pressure altitude, else GPS altitude,   *)
(* else 0                                                                   *)
Preferred(fix) ==
    IF fix.pressureAltitude # None THEN fix.pressureAltitude[1]
    ELSE IF fix.gpsAltitude # None THEN fix.gpsAltitude[1]
    ELSE 0

(* C5: for a non-empty fix sequence and any offset, verticalSpeeds has one  *)
(* entry per fix, the first 0 and every later one the difference of the     *)
(* projected altitudes of the fix and the one before it; so it equals the   *)
(* differences of the preferred altitudes, whatever the offset.             *)
C5_VerticalSpeeds ==
    Returned("convertToGeoJSON") =>
        LET n  == Len(args.trackPoints)
            vs == ret.feature.properties.verticalSpeeds
            xs == ret.feature.geometry.coordinates
        IN  /\ Len(vs) = n
            /\ vs[1] = 0
            /\ \A i \in 2..n :
                 /\ vs[i] = xs[i][3] - xs[i - 1][3]
                 /\ vs[i] = Preferred(args.trackPoints[i])
                              - Preferred(args.trackPoints[i - 1])

(* C5 witness: a returned feature of several fixes, a non-zero offset and a *)
(* non-zero vertical speed                                                  *)
C5_Witness ==
    /\ Returned("convertToGeoJSON")
    /\ args.altitudeOffset # 0
    /\ Len(args.trackPoints) >= 2
    /\ ret.feature.properties.verticalSpeeds[2] # 0

-----------------------------------------------------------------------------
(* C6: for a non-empty fix sequence and any offset, coordinates,            *)
(* timestamps, phases and activities have one entry per fix, in input       *)
(* order, and coordinates[i] is (longitude, latitude, preferred altitude +  *)
(* offset) of fix i.                                                        *)
C6_Projection ==
    Returned("convertToGeoJSON") =>
        LET ps == args.trackPoints
            n  == Len(ps)
            g  == ret.feature.geometry
            pr == ret.feature.properties
        IN  /\ Len(g.coordinates) = n /\ Len(pr.timestamps) = n
            /\ Len(pr.phases) = n /\ Len(pr.activities) = n
            /\ \A i \in 1..n :
                 /\ g.coordinates[i] =
                      <<ps[i].long, ps[i].lat, Preferred(ps[i]) + args.altitudeOffset>>
                 /\ pr.timestamps[i] = toISOString(ps[i].timestamp)
                 /\ pr.phases[i] = ps[i].phase
                 /\ pr.activities[i] = ps[i].activity

(* C6 witness: a returned feature, non-zero offset, whose fixes include one *)
(* with both altitudes, one with only a GPS altitude and one with neither   *)
C6_Witness ==
    /\ Returned("convertToGeoJSON")
    /\ args.altitudeOffset # 0
    /\ \E i, j, k \in 1..Len(args.trackPoints) :
         /\ args.trackPoints[i].pressureAltitude # None
         /\ args.trackPoints[i].gpsAltitude # None
         /\ args.trackPoints[j].pressureAltitude = None
         /\ args.trackPoints[j].gpsAltitude # None
         /\ args.trackPoints[k].pressureAltitude = None
         /\ args.trackPoints[k].gpsAltitude = None

-----------------------------------------------------------------------------
(* Marker lines: an L line containing ACTIVITY is an activity marker; an L  *)
(* line containing PHASE and not ACTIVITY is a phase marker                 *)
IsActivityMarker(line) == CharAt(line, 1) = "L" /\ Includes(line, ACTIVITY)

IsPhaseMarker(line) ==
    CharAt(line, 1) = "L" /\ Includes(line, PHASE) /\ ~Includes(line, ACTIVITY)

(* The raw text of the last line before line i that is a marker of the kind *)
LastMarkerBefore(i, IsMarker(_)) ==
    LET S == {j \in 1..(i - 1) : IsMarker(lines[j])}
    IN  IF S = {} THEN <<>> ELSE <<lines[CHOOSE j \in S : \A k \in S : k <= j]>>

(* C7: each fix of igcParser's trackPoints, and so of its result, carries   *)
(* as activity the raw text of the last activity marker before the fix's    *)
(* line and as phase that of the last phase marker before it (a line with   *)
(* both words is an activity marker only); with no such marker the field is *)
(* absent.                                                                  *)
C7_Markers ==
    call = "igcParser" =>
        /\ \A k \in 1..Len(trackPoints) :
             /\ trackPoints[k].activity
                  = LastMarkerBefore(origin[k].line, IsActivityMarker)
             /\ trackPoints[k].phase
                  = LastMarkerBefore(origin[k].line, IsPhaseMarker)
        /\ pc = "returned" => ret.trackPoints = trackPoints

(* C7 witness: a result with a fix that follows a phase marker and then a   *)
(* line with both words                                                     *)
C7_Witness ==
    /\ Returned("igcParser")
    /\ \E k \in 1..Len(ret.trackPoints) :
         /\ ret.trackPoints[k].activity = <<BothLine>>
         /\ ret.trackPoints[k].phase = <<PhaseLine>>

-----------------------------------------------------------------------------
(* The integer an altitude field denotes *)
Denotes(field) ==
    IF field[1] = "-" THEN 0 - DigitsValue(Tail(field)) ELSE DigitsValue(field)

AltitudeColumns == {i \in 1..Len(FixLayout) : FixLayout[i] = "s"}

PressureField(line) ==
    LET a == CHOOSE i \in AltitudeColumns : \A j \in AltitudeColumns : i <= j
    IN  SubSeq(line, a, a + 4)

GpsField(line) ==
    LET a == CHOOSE i \in AltitudeColumns : \A j \in AltitudeColumns : i >= j
    IN  SubSeq(line, a, a + 4)

ExpectedAltitude(field) ==
    IF field = <<"0", "0", "0", "0", "0">> THEN <<>> ELSE <<Denotes(field)>>

(* C8: parseFix on a well-formed record with flag "A" returns an altitude   *)
(* field "00000" as absent, never as 0, and every other altitude field as   *)
(* the integer it denotes (01345 and 01414 give 1345 and 1414).             *)
C8_Altitudes ==
    (Returned("parseFix") /\ ret.tag = "fix") =>
        /\ ret.fix.pressureAltitude = ExpectedAltitude(PressureField(args.line))
        /\ ret.fix.gpsAltitude = ExpectedAltitude(GpsField(args.line))
        /\ PressureField(args.line) = <<"0", "1", "3", "4", "5">>
               => ret.fix.pressureAltitude = <<1345>>
        /\ GpsField(args.line) = <<"0", "1", "4", "1", "4">>
               => ret.fix.gpsAltitude = <<1414>>

(* C8 witness: a returned fix whose pressure field was "00000" and whose    *)
(* GPS field was negative                                                   *)
C8_Witness ==
    /\ Returned("parseFix") /\ ret.tag = "fix"
    /\ PressureField(args.line) = <<"0", "0", "0", "0", "0">>
    /\ ret.fix.pressureAltitude = <<>>
    /\ ret.fix.gpsAltitude = <<0 - 12>>

-----------------------------------------------------------------------------
(* C9: in igcParser's scan the first line that begins with G is stored      *)
(* unchanged as metadata.security and ends the scan: from then on no step   *)
(* changes trackPoints, the running markers or metadata.security, and no    *)
(* fix comes from a later line.                                             *)
C9_SecurityState ==
    /\ (call = "igcParser" /\ metadata["security"] # <<>>)
           => /\ FirstSecurity <= Len(lines)
              /\ metadata["security"] = <<lines[FirstSecurity]>>
              /\ idx = FirstSecurity
              /\ pc # "scan"
              /\ \A k \in 1..Len(origin) : origin[k].line < FirstSecurity
    /\ (call = "igcParser" /\ pc \in {"convert", "returned"}
          /\ FirstSecurity <= Len(lines))
           => metadata["security"] # <<>>
    /\ Returned("igcParser")
           => /\ ret.metadata["security"] = metadata["security"]
              /\ ret.trackPoints = trackPoints

C9_SecurityStep ==
    (call = "igcParser" /\ metadata["security"] # <<>>)
        => /\ UNCHANGED <<trackPoints, lastActivity, lastPhase, idx>>
           /\ metadata'["security"] = metadata["security"]

C9_Security == [](C9_SecurityState) /\ [][C9_SecurityStep]_vars

(* C9 witness: a result whose input has a fix line after the security      *)
(* record                                                                   *)
C9_Witness ==
    /\ Returned("igcParser")
    /\ metadata["security"] # <<>>
    /\ \E j \in (idx + 1)..Len(lines) : CharAt(lines[j], 1) = "B"

-----------------------------------------------------------------------------
(* C10: a line that begins with B and does not match the fix-record layout  *)
(* makes parseFix throw, whatever stands in its validity-flag column; with  *)
(* such a line before the first security record igcParser throws and        *)
(* returns no result, so it never returns after skipping the line.          *)
C10_Malformed ==
    /\ (call = "parseFix" /\ pc # "start"
          /\ CharAt(args.line, 1) = "B" /\ ~WellFormedFix(args.line))
           => (pc = "thrown" /\ ret = [tag |-> "throw", error |-> "Invalid B record"])
    /\ Returned("igcParser")
           => \A j \in 1..(FirstSecurity - 1) :
                  CharAt(lines[j], 1) = "B" => WellFormedFix(lines[j])
    /\ Thrown("igcParser") => DOMAIN ret = {"tag", "error"}

(* C10 witness: igcParser has thrown on a malformed fix line after it had   *)
(* accepted a fix                                                           *)
C10_Witness ==
    /\ Thrown("igcParser")
    /\ ret.error = "Invalid B record"
    /\ Len(trackPoints) >= 1

-----------------------------------------------------------------------------
(* Header lines as the claims see them *)

KeyOf(line) == SubSeq(line, 1, 5)

IsHeaderLine(line) == Len(line) >= 5 /\ line[1] = "H"

Colons(line) == {i \in 1..Len(line) : line[i] = ":"}

(* The text after the last colon of a line, or the rest of the line after   *)
(* its key when it has no colon                                             *)
TrailingText(line) ==
    IF Colons(line) = {} THEN SubSeq(line, 6, Len(line))
    ELSE LET p == CHOOSE i \in Colons(line) : \A j \in Colons(line) : j <= i
         IN  SubSeq(line, p + 1, Len(line))

(* The free-text keys whose field is a string (the datum field is a number) *)
FreeTextFields ==
    {"pilot", "copilot", "gliderModel", "gliderID", "firmwareVersion",
     "hardwareVersion", "flightRecorderType", "gpsType", "pressureSensorType",
     "competitionID", "competitionClass"}

(* Line j is the last line of the call that carries its key *)
LastOfItsKey(j) ==
    \A k \in (j + 1)..Len(args.igcLines) :
        ~(IsHeaderLine(args.igcLines[k])
            /\ KeyOf(args.igcLines[k]) = KeyOf(args.igcLines[j]))

(* C11: parseMetadata sets the field of every header line with a recognized *)
(* free-text key to the text after the last colon of the line, and to the   *)
(* whole remainder of the line when it has no colon. (Stated for the keys   *)
(* whose field is a string, and for lines whose such text is not empty.)    *)
C11_FreeText ==
    Returned("parseMetadata") =>
        \A j \in 1..Len(args.igcLines) :
            LET line  == args.igcLines[j]
                field == IF IsHeaderLine(line) THEN TextKeyField(KeyOf(line)) ELSE <<>>
            IN  (/\ field # <<>> /\ field[1] \in FreeTextFields
                 /\ LastOfItsKey(j) /\ TrailingText(line) # <<>>)
                    => ret.metadata[field[1]] = <<TrailingText(line)>>

-----------------------------------------------------------------------------
(* The first run of digits of a line, <<>> when it has no digit *)
FirstDigitRun(line) ==
    LET D == {i \in 1..Len(line) : line[i] \in Digits}
    IN  IF D = {} THEN <<>>
        ELSE LET p == CHOOSE i \in D : \A j \in D : i <= j
             IN  DigitPrefix(SubSeq(line, p, Len(line)))

IsAccuracyLine(line) == IsHeaderLine(line) /\ KeyOf(line) = AccuracyKey

(* C12: for a header line with the fix-accuracy key, parseMetadata sets     *)
(* fixAccuracy to the integer its digit run denotes; with no digit run the  *)
(* field stays absent; the field is never a non-integer value.              *)
C12_FixAccuracy ==
    Returned("parseMetadata") =>
        /\ \A j \in 1..Len(args.igcLines) :
             LET line == args.igcLines[j]
             IN  (IsAccuracyLine(line) /\ LastOfItsKey(j) /\ FirstDigitRun(line) # <<>>)
                     => ret.metadata["fixAccuracy"]
                            = <<[nan |-> FALSE, val |-> DigitsValue(FirstDigitRun(line))]>>
        /\ (\A j \in 1..Len(args.igcLines) :
                IsAccuracyLine(args.igcLines[j]) => FirstDigitRun(args.igcLines[j]) = <<>>)
               => ret.metadata["fixAccuracy"] = <<>>
        /\ ret.metadata["fixAccuracy"] # <<>>
               => ~ret.metadata["fixAccuracy"][1].nan

=============================================================================
